---- MODULE Spec2Model ----
(***************************************************************************)
(* Model of the caching and aggregation engine of question-1               *)
(* (src/question-1/src/services/dataService.ts, class DataService).        *)
(*                                                                         *)
(* The DataService singleton owns six caches and three families of fetch   *)
(* timestamps.  Its three lookups (getUsers, getUserPosts, getPostComments)*)
(* are freshness-gated read-through caches over a remote source that may   *)
(* fail; its three aggregations (getTopUsers, getPopularPosts,             *)
(* getLatestPosts) are computed over them.                                 *)
(*                                                                         *)
(* Representation.                                                         *)
(*  - A user id is a string of decimal digits, modelled as the sequence of *)
(*    its digits (<<1,0>> is "10"), so that parseInt and the key order of  *)
(*    Object.keys are computed and not assumed.                            *)
(*  - A JS Map / Record is a function whose DOMAIN is the set of keys.     *)
(*  - A Post is [id, userid, timestamp]; a Comment is [id, postid].  The   *)
(*    free-text content field is carried through unread by every method    *)
(*    and is left out.                                                     *)
(*  - One action is one call of a public method, from its first statement  *)
(*    to the settlement of its promise, with every remote outcome it meets *)
(*    chosen by \E.  The clock is read once per call.                      *)
(***************************************************************************)
EXTENDS Integers, Sequences, FiniteSets, TLC

VARIABLES
    now,                    \* Date.now()
    usersCache,             \* Record<string,string>
    postsCache,             \* Map<number, Post[]>
    commentsCache,          \* Map<number, Comment[]>
    userPostCountCache,     \* Map<string, number>
    postCommentCountCache,  \* Map<number, number>
    allPostsCache,          \* Post[]
    lastUsersFetch,         \* number
    lastPostsFetch,         \* Map<number, number>
    lastCommentsFetch,      \* Map<number, number>
    fetched,                \* history: the keys whose remote fetch has ever succeeded
    last,                   \* observation: the call that has just settled
    res,                    \* the response the controller has just sent
    calls                   \* the aggregation calls in progress, one per caller

caches == <<usersCache, postsCache, commentsCache, userPostCountCache,
            postCommentCountCache, allPostsCache, lastUsersFetch,
            lastPostsFetch, lastCommentsFetch>>

vars == <<now, usersCache, postsCache, commentsCache, userPostCountCache,
          postCommentCountCache, allPostsCache, lastUsersFetch,
          lastPostsFetch, lastCommentsFetch, fetched, last, res, calls>>

---------------------------------------------------------------------------
(* Program constants *)

cacheTTL == 30000

batchSize == 10

DefaultLimit == 5

---------------------------------------------------------------------------
(* Bounds of the model *)

\* the clock takes the values TickStep, 2*TickStep, ..., MaxTicks*TickStep
MaxTicks == 3

\* the remote source holds at most MaxPosts posts per user
MaxPosts == 1

\* the remote source holds at most MaxComments comments per post
MaxComments == 1

\* explicit limits 1..MaxLimit are tried besides the default
MaxLimit == 2

\* where failures are counted, at most MaxFailures comment requests of a call fail
MaxFailures == 2

\* where calls overlap, MaxCallers callers each make at most MaxCalls calls
MaxCallers == 2

MaxCalls == 1

TickStep == cacheTTL \div 2

\* The user ids the remote directory may hold: "2" and "10".
UserIds == {<<2>>, <<1, 0>>}

---------------------------------------------------------------------------
(* JavaScript library functions, computed as the engine computes them *)

\* parseInt(s, 10) of a string of decimal digits
RECURSIVE ParseIntFrom(_, _)
ParseIntFrom(s, acc) ==
    IF s = <<>> THEN acc ELSE ParseIntFrom(Tail(s), acc * 10 + Head(s))

ParseInt(s) == ParseIntFrom(s, 0)

\* The elements of the finite set S of integers, ascending.
RECURSIVE Ascending(_)
Ascending(S) ==
    IF S = {} THEN <<>>
    ELSE LET m == CHOOSE x \in S : \A y \in S : x <= y
         IN  <<m>> \o Ascending(S \ {m})

\* Object.keys(rec): integer-like keys come first, in ascending numeric order
\* (every key of the directory is integer-like).
ObjectKeys(rec) ==
    LET nums == {ParseInt(k) : k \in DOMAIN rec}
        byNum(n) == CHOOSE k \in DOMAIN rec : ParseInt(k) = n
        asc == Ascending(nums)
    IN  [i \in 1..Len(asc) |-> byNum(asc[i])]

\* MapSet leaving the value of a key that is already set
MapSetIfAbsent(m, k, v) ==
    [x \in (DOMAIN m) \cup {k} |-> IF x \in DOMAIN m THEN m[x] ELSE v]

\* Map.prototype.set / assignment to a Record key
MapSet(m, k, v) == [x \in (DOMAIN m) \cup {k} |-> IF x = k THEN v ELSE m[x]]

\* Array.prototype.slice(begin, end) with begin >= 0: a negative end counts
\* from the end of the array.
Slice(a, begin, end) ==
    LET len == Len(a)
        e0  == IF end < 0 THEN len + end ELSE end
        e   == IF e0 < 0 THEN 0 ELSE IF e0 > len THEN len ELSE e0
        b   == IF begin > len THEN len ELSE begin
    IN  IF e <= b THEN <<>> ELSE SubSeq(a, b + 1, e)

\* Array.prototype.sort(cmp) is stable: a[j] ends in front of a[i] exactly when
\* cmp puts it strictly first, or cmp ties them and j < i.  before[j, i] is
\* cmp(a[j], a[i]) < 0.
StableSort(a, before) ==
    LET inFront(j, i) == before[j, i] \/ (~before[i, j] /\ j < i)
        rank(i) == 1 + Cardinality({j \in 1..Len(a) : j # i /\ inFront(j, i)})
    IN  [r \in 1..Len(a) |-> a[CHOOSE i \in 1..Len(a) : rank(i) = r]]

---------------------------------------------------------------------------
(* The remote source (makeAuthorizedRequest): every request either fails or  *)
(* answers with some well-formed payload.                                    *)

\* the display name the directory gives a user
DisplayName(userId) == <<"user", ParseInt(userId)>>

\* the directories the remote source answers with: empty, one user, both
Directories == {{}, {<<2>>}, UserIds}

\* GET /users: a failure, or one of the directories
UsersOutcomes ==
    {[ok |-> FALSE, ids |-> {}]} \cup {[ok |-> TRUE, ids |-> S] : S \in Directories}

UsersResponse(out) == [id \in out.ids |-> DisplayName(id)]

\* GET /users/:id/posts: k = -1 is a failure; otherwise the k posts of that
\* user, whose ids are the user's own and whose userid is the user.
PostsOutcomes == -1..MaxPosts

PostsResponse(userId, k) ==
    [i \in 1..k |-> [id |-> ParseInt(userId) * 100 + i, userid |-> ParseInt(userId)]]

\* GET /posts/:id/comments: c = -1 is a failure; otherwise the c comments of
\* that post.
CommentsOutcomes == -1..MaxComments

CommentsResponse(postId, c) ==
    [i \in 1..c |-> [id |-> postId * 100 + i, postid |-> postId]]

\* every post id the remote source can hold
PostIds == {ParseInt(u) * 100 + i : u \in UserIds, i \in 1..MaxPosts}

---------------------------------------------------------------------------
(* The DataService object *)

DS == [usersCache |-> usersCache, postsCache |-> postsCache,
       commentsCache |-> commentsCache,
       userPostCountCache |-> userPostCountCache,
       postCommentCountCache |-> postCommentCountCache,
       allPostsCache |-> allPostsCache, lastUsersFetch |-> lastUsersFetch,
       lastPostsFetch |-> lastPostsFetch,
       lastCommentsFetch |-> lastCommentsFetch]

\* the fields of the object become those of s
Install(s) ==
    /\ usersCache' = s.usersCache
    /\ postsCache' = s.postsCache
    /\ commentsCache' = s.commentsCache
    /\ userPostCountCache' = s.userPostCountCache
    /\ postCommentCountCache' = s.postCommentCountCache
    /\ allPostsCache' = s.allPostsCache
    /\ lastUsersFetch' = s.lastUsersFetch
    /\ lastPostsFetch' = s.lastPostsFetch
    /\ lastCommentsFetch' = s.lastCommentsFetch

\* x || 0 on a number
OrZero(x) == IF x = 0 THEN 0 ELSE x

\* UsersCached with the test of the cached directory left out
UsersCachedUntested(s) == TRUE

\* Object.keys(this.usersCache).length > 0
UsersCached(s) == Cardinality(DOMAIN s.usersCache) > 0

UsersFresh(s, currentTime) ==
    UsersCached(s) /\ currentTime - s.lastUsersFetch < cacheTTL

\* this.postsCache.has(userIdNum)
PostsCached(s, userIdNum) == userIdNum \in DOMAIN s.postsCache

\* PostsFresh with the comparison of the age turned round
PostsFreshInverted(s, userIdNum, currentTime) ==
    /\ PostsCached(s, userIdNum)
    /\ userIdNum \in DOMAIN s.lastPostsFetch
    /\ currentTime - OrZero(s.lastPostsFetch[userIdNum]) > cacheTTL

PostsFresh(s, userIdNum, currentTime) ==
    /\ PostsCached(s, userIdNum)
    /\ userIdNum \in DOMAIN s.lastPostsFetch
    /\ currentTime - OrZero(s.lastPostsFetch[userIdNum]) < cacheTTL

\* this.commentsCache.has(postId)
CommentsCached(s, postId) == postId \in DOMAIN s.commentsCache

CommentsFresh(s, postId, currentTime) ==
    /\ CommentsCached(s, postId)
    /\ postId \in DOMAIN s.lastCommentsFetch
    /\ currentTime - OrZero(s.lastCommentsFetch[postId]) < cacheTTL

\* What a lookup leaves behind: the object s, whether it threw, what it
\* returned, whether it asked the remote source, and whether it stored the
\* answer.
Settled(s, threw, ret, remote, stored) ==
    [s |-> s, threw |-> threw, ret |-> ret, remote |-> remote, stored |-> stored]

\* UsersArrival resolving with an empty directory where it throws
UsersArrivalSwallowing(s, currentTime, out) ==
    IF out.ok
    THEN LET t == [s EXCEPT !.usersCache = UsersResponse(out),
                            !.lastUsersFetch = currentTime]
         IN  Settled(t, FALSE, t.usersCache, TRUE, TRUE)
    ELSE Settled(s, FALSE, s.usersCache, TRUE, FALSE)

\* The try/catch of getUsers: the request issued by a call that read the clock
\* at currentTime is answered by out, the object being s.
UsersArrival(s, currentTime, out) ==
    IF out.ok
    THEN LET t == [s EXCEPT !.usersCache = UsersResponse(out),
                            !.lastUsersFetch = currentTime]
         IN  Settled(t, FALSE, t.usersCache, TRUE, TRUE)
    ELSE IF UsersCached(s)
    THEN Settled(s, FALSE, s.usersCache, TRUE, FALSE)
    ELSE Settled(s, TRUE, <<>>, TRUE, FALSE)

\* getUsers(), the remote answer being out
GetUsersStep(s, currentTime, out) ==
    IF UsersFresh(s, currentTime)
    THEN Settled(s, FALSE, s.usersCache, FALSE, FALSE)
    ELSE UsersArrival(s, currentTime, out)

\* MergePosts without the removal of the user's earlier posts
MergePostsAppending(all, userIdNum, postsWithTimestamp) ==
    all \o postsWithTimestamp

\* the merge of a user's refetched posts into allPostsCache
MergePosts(all, userIdNum, postsWithTimestamp) ==
    LET others(p) == p.userid # userIdNum
    IN  SelectSeq(all, others) \o postsWithTimestamp

\* The try/catch of getUserPosts: the request issued by a call that read the
\* clock at currentTime is answered by k, the object being s.
PostsArrival(s, userId, currentTime, k) ==
    LET userIdNum == ParseInt(userId)
    IN  IF k >= 0
        THEN LET posts == PostsResponse(userId, k)
                 postsWithTimestamp ==
                     [i \in 1..Len(posts) |->
                        [id |-> posts[i].id, userid |-> posts[i].userid,
                         timestamp |-> currentTime]]
                 t == [s EXCEPT
                         !.postsCache = MapSet(@, userIdNum, postsWithTimestamp),
                         !.lastPostsFetch = MapSet(@, userIdNum, currentTime),
                         !.userPostCountCache =
                             MapSet(@, userId, Len(postsWithTimestamp)),
                         !.allPostsCache =
                             MergePosts(@, userIdNum, postsWithTimestamp)]
             IN  Settled(t, FALSE, postsWithTimestamp, TRUE, TRUE)
        ELSE IF PostsCached(s, userIdNum)
        THEN Settled(s, FALSE, s.postsCache[userIdNum], TRUE, FALSE)
        ELSE Settled(s, TRUE, <<>>, TRUE, FALSE)

\* getUserPosts(userId), the remote answer being k
GetUserPostsStep(s, userId, currentTime, k) ==
    LET userIdNum == ParseInt(userId)
    IN  IF PostsFresh(s, userIdNum, currentTime)
        THEN Settled(s, FALSE, s.postsCache[userIdNum], FALSE, FALSE)
        ELSE PostsArrival(s, userId, currentTime, k)

\* CommentsArrival recording the time of the fetch whether or not it succeeds
CommentsArrivalStamping(s, postId, currentTime, c) ==
    LET stamped == [s EXCEPT !.lastCommentsFetch = MapSet(@, postId, currentTime)]
    IN  IF c >= 0
        THEN LET comments == CommentsResponse(postId, c)
                 t == [stamped EXCEPT
                         !.commentsCache = MapSet(@, postId, comments),
                         !.postCommentCountCache =
                             MapSet(@, postId, Len(comments))]
             IN  Settled(t, FALSE, comments, TRUE, TRUE)
        ELSE IF CommentsCached(s, postId)
        THEN Settled(stamped, FALSE, s.commentsCache[postId], TRUE, FALSE)
        ELSE Settled(stamped, TRUE, <<>>, TRUE, FALSE)

\* The try/catch of getPostComments: the request issued by a call that read
\* the clock at currentTime is answered by c, the object being s.
CommentsArrival(s, postId, currentTime, c) ==
    IF c >= 0
    THEN LET comments == CommentsResponse(postId, c)
             t == [s EXCEPT
                     !.commentsCache = MapSet(@, postId, comments),
                     !.lastCommentsFetch = MapSet(@, postId, currentTime),
                     !.postCommentCountCache = MapSet(@, postId, Len(comments))]
         IN  Settled(t, FALSE, comments, TRUE, TRUE)
    ELSE IF CommentsCached(s, postId)
    THEN Settled(s, FALSE, s.commentsCache[postId], TRUE, FALSE)
    ELSE Settled(s, TRUE, <<>>, TRUE, FALSE)

\* getPostComments(postId), the remote answer being c
GetPostCommentsStep(s, postId, currentTime, c) ==
    IF CommentsFresh(s, postId, currentTime)
    THEN Settled(s, FALSE, s.commentsCache[postId], FALSE, FALSE)
    ELSE CommentsArrival(s, postId, currentTime, c)

---------------------------------------------------------------------------
(* Promise.all over getUserPosts *)

\* The elements of the array a.
Elements(a) == {a[i] : i \in 1..Len(a)}

\* The orders in which the promises started for the array a can settle.
SettleOrders(a) ==
    LET n == Len(a)
        perms == {p \in [1..n -> 1..n] : \A i, j \in 1..n : p[i] = p[j] => i = j}
    IN  {[i \in 1..n |-> a[p[i]]] : p \in perms}

\* What a group of concurrent lookups leaves behind: the object, the keys whose
\* lookup threw, asked the remote source, met a remote failure, and the length
\* each lookup that did not throw returned.
NoneSettled(s) ==
    [s |-> s, threw |-> {}, remote |-> {}, failed |-> {}, len |-> <<>>]

\* One getUserPosts(userId) settles.  k[userId] is the remote answer.
SettlePosts(acc, userId, currentTime, k) ==
    LET r == GetUserPostsStep(acc.s, userId, currentTime, k[userId])
    IN  [s      |-> r.s,
         threw  |-> IF r.threw THEN acc.threw \cup {userId} ELSE acc.threw,
         remote |-> IF r.remote THEN acc.remote \cup {userId} ELSE acc.remote,
         failed |-> IF r.remote /\ ~r.stored THEN acc.failed \cup {userId}
                    ELSE acc.failed,
         len    |-> IF r.threw THEN acc.len
                    ELSE MapSet(acc.len, userId, Len(r.ret))]

\* getUserPosts is started for every user of the array at once (each reads the
\* clock and tests the freshness of its own key; the keys are distinct) and the
\* promises settle in the order ord.
RECURSIVE FetchPosts(_, _, _, _)
FetchPosts(acc, ord, currentTime, k) ==
    IF ord = <<>> THEN acc
    ELSE FetchPosts(SettlePosts(acc, Head(ord), currentTime, k),
                    Tail(ord), currentTime, k)

---------------------------------------------------------------------------
(* getTopUsers *)

\* postCounts.get(id) || 0, and every other Map.get(key) || 0
GetOrZero(m, key) == IF key \in DOMAIN m THEN OrZero(m[key]) ELSE 0

\* this.userPostCountCache.size > 0
HasPostCounts(s) == Cardinality(DOMAIN s.userPostCountCache) > 0

\* The users whose posts getTopUsers looks up: those without a cached count
\* when some count is cached, all of them otherwise.
TopTargets(s, userIds) ==
    IF HasPostCounts(s)
    THEN LET missing(id) == id \notin DOMAIN s.userPostCountCache
         IN  SelectSeq(userIds, missing)
    ELSE userIds

\* The postCounts map after the lookups f: the length each lookup returned, 0
\* where it threw, and, when some count was cached before the lookups
\* (hadCounts), every entry of userPostCountCache on top.
TopPostCounts(hadCounts, targets, f) ==
    LET looked == [id \in Elements(targets) |->
                     IF id \in f.threw THEN 0 ELSE f.len[id]]
        cached == f.s.userPostCountCache
    IN  IF hadCounts
        THEN [id \in (DOMAIN looked) \cup (DOMAIN cached) |->
                IF id \in DOMAIN cached THEN cached[id] ELSE looked[id]]
        ELSE looked

\* ByPostCount with the operands of the subtraction swapped
ByPostCountAscending(a, b) == a.postCount - b.postCount < 0

\* (a, b) => b.postCount - a.postCount is negative
ByPostCount(a, b) == b.postCount - a.postCount < 0

\* userIds.map(..).sort(..).slice(0, limit)
RankTopUsers(users, postCounts, limit) ==
    LET userIds == ObjectKeys(users)
        mapped == [i \in 1..Len(userIds) |->
                     [id |-> userIds[i], name |-> users[userIds[i]],
                      postCount |-> GetOrZero(postCounts, userIds[i])]]
        before == [i, j \in 1..Len(mapped) |-> ByPostCount(mapped[i], mapped[j])]
    IN  Slice(StableSort(mapped, before), 0, limit)

---------------------------------------------------------------------------
(* getPopularPosts and getLatestPosts *)

\* if (this.allPostsCache.length === 0) await Promise.all(userIds.map(getUserPosts))
NeedAllPosts(s) == Len(s.allPostsCache) = 0

\* What the comment lookups of getPopularPosts leave behind: the object, the
\* postCommentCounts map, the posts whose comments were asked of the remote
\* source and those whose request failed.
NoCounts(s) == [s |-> s, counts |-> <<>>, remote |-> {}, failed |-> {}]

\* CountAfterError with the count of the failed post left unset
CountAfterErrorUnset(acc, postId) == acc

\* the catch block of the batch callback
CountAfterError(acc, postId) ==
    [acc EXCEPT !.counts = MapSet(@, postId, 0)]

\* The callback of one post of a batch.  s0 is the object when the batch
\* started: every callback of the batch tests postCommentCountCache before any
\* request of the batch is answered.  c[postId] is the remote answer.
CountPost(s0, acc, post, currentTime, c) ==
    IF post.id \in DOMAIN s0.postCommentCountCache
    THEN [acc EXCEPT !.counts =
             MapSet(@, post.id, OrZero(s0.postCommentCountCache[post.id]))]
    ELSE LET r == GetPostCommentsStep(acc.s, post.id, currentTime, c[post.id])
             met == [acc EXCEPT
                       !.s = r.s,
                       !.remote = IF r.remote THEN @ \cup {post.id} ELSE @,
                       !.failed = IF r.remote /\ ~r.stored THEN @ \cup {post.id}
                                  ELSE @]
         IN  IF r.threw THEN CountAfterError(met, post.id)
             ELSE [met EXCEPT !.counts = MapSet(@, post.id, Len(r.ret))]

\* Batch taking every post that is left
BatchUnbounded(allPosts, i) == Slice(allPosts, i, Len(allPosts))

\* allPosts.slice(i, i + batchSize)
Batch(allPosts, i) == Slice(allPosts, i, i + batchSize)

RECURSIVE CountBatch(_, _, _, _, _)
CountBatch(s0, acc, batch, currentTime, c) ==
    IF batch = <<>> THEN acc
    ELSE CountBatch(s0, CountPost(s0, acc, Head(batch), currentTime, c),
                    Tail(batch), currentTime, c)

\* for (let i = 0; i < allPosts.length; i += batchSize)
RECURSIVE CountBatches(_, _, _, _, _)
CountBatches(acc, allPosts, i, currentTime, c) ==
    IF i < Len(allPosts)
    THEN CountBatches(CountBatch(acc.s, acc, Batch(allPosts, i),
                                 currentTime, c),
                      allPosts, i + batchSize, currentTime, c)
    ELSE acc

\* the maximum of the values of postCommentCounts, 0 when there is none
RECURSIVE MaxCountFrom(_, _, _)
MaxCountFrom(counts, keys, maxCommentCount) ==
    IF keys = {} THEN maxCommentCount
    ELSE LET key == CHOOSE x \in keys : TRUE
             count == counts[key]
         IN  MaxCountFrom(counts, keys \ {key},
                          IF count > maxCommentCount THEN count
                          ELSE maxCommentCount)

MaxCommentCount(counts) == MaxCountFrom(counts, DOMAIN counts, 0)

\* PopularPosts returning a single winner, the first post with the maximum
PopularPostsFirstOnly(all, counts) ==
    LET isMax(post) == post.id \in DOMAIN counts
                       /\ \A id \in DOMAIN counts : counts[id] <= counts[post.id]
    IN  Slice(SelectSeq(all, isMax), 0, 1)

\* this.allPostsCache.filter(post => postCommentCounts.get(post.id) === max)
PopularPosts(all, counts) ==
    LET maxCommentCount == MaxCommentCount(counts)
        isMax(post) == post.id \in DOMAIN counts
                       /\ counts[post.id] = maxCommentCount
    IN  SelectSeq(all, isMax)

\* ByTimestamp with the operands of the subtraction swapped
ByTimestampAscending(a, b) == OrZero(a.timestamp) - OrZero(b.timestamp) < 0

\* (a, b) => (b.timestamp || 0) - (a.timestamp || 0) is negative
ByTimestamp(a, b) == OrZero(b.timestamp) - OrZero(a.timestamp) < 0

\* [...this.allPostsCache].sort(..).slice(0, limit)
LatestPosts(all, limit) ==
    LET before == [i, j \in 1..Len(all) |-> ByTimestamp(all[i], all[j])]
    IN  Slice(StableSort(all, before), 0, limit)

---------------------------------------------------------------------------
(* Observation of a call, and the history of successful fetches *)

NoRequests == [users |-> FALSE, posts |-> {}, comments |-> {}]

\* op: the method; user, post, limit: its argument; threw: its promise was
\* rejected; dir, top, posts, comments: the directory, TopUser[], Post[] or
\* Comment[] it resolved with; counts: the postCommentCounts map of
\* getPopularPosts; asked: the remote requests it issued; failed: those of them
\* that failed.
Observed(op, arg, threw, dir, top, posts, comments, counts, asked, failed) ==
    [op |-> op, user |-> arg.user, post |-> arg.post, limit |-> arg.limit,
     threw |-> threw, dir |-> dir, top |-> top, posts |-> posts,
     comments |-> comments, counts |-> counts, asked |-> asked,
     failed |-> failed]

NoArg == [user |-> <<>>, post |-> 0, limit |-> 0]

Idle ==
    Observed("none", NoArg, FALSE, <<>>, <<>>, <<>>, <<>>, <<>>,
             NoRequests, NoRequests)

\* fetched after a call that asked and failed as given
Remember(asked, failed) ==
    [users    |-> fetched.users \/ (asked.users /\ ~failed.users),
     posts    |-> fetched.posts
                  \cup {ParseInt(u) : u \in asked.posts \ failed.posts},
     comments |-> fetched.comments \cup (asked.comments \ failed.comments)]

\* No response has been sent.
NoResponse == [route |-> "none", query |-> "", status |-> 0]

\* the callers whose calls may overlap
Callers == 1..MaxCallers

\* A call of an aggregation in progress.  op, limit: the method and its
\* argument; pc: the await the call is suspended at ("users", "posts",
\* "comments"), "done" once its promise has settled; count: the calls the caller
\* has made; currentTime: the clock read by the lookups the call awaits; users,
\* hadCounts, targets, allPosts, i, counts: the locals of the method;
\* pendingPosts, pendingComments: the requests issued and not yet answered;
\* threwPosts, lens: the posts lookups that threw, and the length each other
\* one returned; threw, top, posts: how the promise settled; asked, failed: the
\* requests the call has issued, and those of them that failed.
NoCall ==
    [op |-> "none", limit |-> 0, pc |-> "idle", count |-> 0, currentTime |-> 0,
     users |-> <<>>, hadCounts |-> FALSE, targets |-> <<>>,
     pendingPosts |-> {}, threwPosts |-> {}, lens |-> <<>>,
     allPosts |-> <<>>, i |-> 0, pendingComments |-> {}, counts |-> <<>>,
     threw |-> FALSE, top |-> <<>>, posts |-> <<>>, asked |-> NoRequests,
     failed |-> NoRequests]

\* the remote answers a lookup can meet: one stands for all when the remote
\* source is not asked
Answers(fresh, outcomes) ==
    IF fresh THEN {CHOOSE o \in outcomes : TRUE} ELSE outcomes

---------------------------------------------------------------------------
(* The state after construction *)

Init ==
    /\ now = TickStep
    /\ usersCache = <<>>
    /\ postsCache = <<>>
    /\ commentsCache = <<>>
    /\ userPostCountCache = <<>>
    /\ postCommentCountCache = <<>>
    /\ allPostsCache = <<>>
    /\ lastUsersFetch = 0
    /\ lastPostsFetch = <<>>
    /\ lastCommentsFetch = <<>>
    /\ fetched = NoRequests
    /\ last = Idle
    /\ res = NoResponse
    /\ calls = [c \in Callers |-> NoCall]

\* time passes between two calls
Tick ==
    /\ now < MaxTicks * TickStep
    /\ now' = now + TickStep
    /\ last' = Idle
    /\ res' = NoResponse
    /\ UNCHANGED <<caches, fetched, calls>>

---------------------------------------------------------------------------
(* The lookups *)

GetUsers ==
    \E out \in Answers(UsersFresh(DS, now), UsersOutcomes) :
        LET r == GetUsersStep(DS, now, out)
            asked == [NoRequests EXCEPT !.users = r.remote]
            failed == [NoRequests EXCEPT !.users = r.remote /\ ~r.stored]
        IN  /\ Install(r.s)
            /\ last' = Observed("getUsers", NoArg, r.threw, r.ret, <<>>, <<>>,
                                <<>>, <<>>, asked, failed)
            /\ fetched' = Remember(asked, failed)
            /\ UNCHANGED <<now, res, calls>>

GetUserPosts ==
    \E userId \in UserIds :
      \E k \in Answers(PostsFresh(DS, ParseInt(userId), now), PostsOutcomes) :
        LET r == GetUserPostsStep(DS, userId, now, k)
            asked == [NoRequests EXCEPT !.posts = IF r.remote THEN {userId} ELSE {}]
            failed == [NoRequests EXCEPT
                         !.posts = IF r.remote /\ ~r.stored THEN {userId} ELSE {}]
        IN  /\ Install(r.s)
            /\ last' = Observed("getUserPosts", [NoArg EXCEPT !.user = userId],
                                r.threw, <<>>, <<>>, r.ret, <<>>, <<>>,
                                asked, failed)
            /\ fetched' = Remember(asked, failed)
            /\ UNCHANGED <<now, res, calls>>

GetPostComments ==
    \E postId \in PostIds :
      \E c \in Answers(CommentsFresh(DS, postId, now), CommentsOutcomes) :
        LET r == GetPostCommentsStep(DS, postId, now, c)
            asked == [NoRequests EXCEPT
                        !.comments = IF r.remote THEN {postId} ELSE {}]
            failed == [NoRequests EXCEPT
                         !.comments = IF r.remote /\ ~r.stored THEN {postId}
                                      ELSE {}]
        IN  /\ Install(r.s)
            /\ last' = Observed("getPostComments", [NoArg EXCEPT !.post = postId],
                                r.threw, <<>>, <<>>, <<>>, r.ret, <<>>,
                                asked, failed)
            /\ fetched' = Remember(asked, failed)
            /\ UNCHANGED <<now, res, calls>>

---------------------------------------------------------------------------
(* The aggregations *)

\* the limits getTopUsers is called with: the controller passes on whatever
\* integer the query string holds, 5 when it holds none
TopLimits == (-1..MaxLimit) \cup {DefaultLimit}

\* the limits getLatestPosts is called with
LatestLimits == (1..MaxLimit) \cup {DefaultLimit}

\* the remote answers the lookups of the users of the array targets can meet,
\* each drawn from postsOutcomes
PostsAnswers(s, targets, currentTime, postsOutcomes) ==
    LET asking == {id \in Elements(targets) :
                     ~PostsFresh(s, ParseInt(id), currentTime)}
    IN  {[id \in Elements(targets) |-> IF id \in asking THEN k[id] ELSE -1] :
            k \in [asking -> postsOutcomes]}

\* the remote answers the comment lookups over the array allPosts can meet, each
\* drawn from commentsOutcomes, at most maxFailures of them failures
CommentsAnswers(s, allPosts, commentsOutcomes, maxFailures) ==
    LET ids == {allPosts[i].id : i \in 1..Len(allPosts)}
        asking == ids \ DOMAIN s.postCommentCountCache
        few(c) == Cardinality({id \in asking : c[id] < 0}) <= maxFailures
    IN  {[id \in ids |-> IF id \in asking THEN c[id] ELSE -1] :
            c \in {d \in [asking -> commentsOutcomes] : few(d)}}

\* the requests of a call: the directory lookup u, then the posts lookups f,
\* then the comment lookups n
Asked(u, f, n) ==
    [users |-> u.remote, posts |-> f.remote, comments |-> n.remote]

Failed(u, f, n) ==
    [users |-> u.remote /\ ~u.stored, posts |-> f.failed, comments |-> n.failed]

\* the call ends after the lookups u, f and n, in the object s
Ends(op, limit, threw, top, posts, u, f, n, s) ==
    /\ Install(s)
    /\ last' = Observed(op, [NoArg EXCEPT !.limit = limit], threw, u.ret, top,
                        posts, <<>>, n.counts, Asked(u, f, n), Failed(u, f, n))
    /\ fetched' = Remember(Asked(u, f, n), Failed(u, f, n))
    /\ UNCHANGED <<now, calls>>

\* the call ends at the directory lookup u, which threw
DirectoryThrew(op, limit, u) ==
    Ends(op, limit, TRUE, <<>>, <<>>, u, NoneSettled(u.s), NoCounts(u.s), u.s)

\* getTopUsers(limit), the remote answers drawn from the given sets
TopUsersCall(usersOutcomes, postsOutcomes) ==
    \E limit \in TopLimits :
      \E out \in Answers(UsersFresh(DS, now), usersOutcomes) :
        LET u == GetUsersStep(DS, now, out)
        IN  IF u.threw THEN DirectoryThrew("getTopUsers", limit, u)
            ELSE
              LET users == u.ret
                  userIds == ObjectKeys(users)
                  hadCounts == HasPostCounts(u.s)
                  targets == TopTargets(u.s, userIds)
              IN  \E ord \in SettleOrders(targets) :
                    \E k \in PostsAnswers(u.s, targets, now, postsOutcomes) :
                      LET f == FetchPosts(NoneSettled(u.s), ord, now, k)
                          postCounts == TopPostCounts(hadCounts, targets, f)
                          topUsers == RankTopUsers(users, postCounts, limit)
                      IN  Ends("getTopUsers", limit, FALSE, topUsers, <<>>,
                               u, f, NoCounts(f.s), f.s)

\* getPopularPosts().  Promise.all(userIds.map(userId =>
\* this.getUserPosts(userId))) is rejected as soon as one lookup throws; the
\* other lookups still settle.
PopularPostsCall(usersOutcomes, postsOutcomes, commentsOutcomes, maxFailures) ==
    \E out \in Answers(UsersFresh(DS, now), usersOutcomes) :
        LET u == GetUsersStep(DS, now, out)
        IN  IF u.threw THEN DirectoryThrew("getPopularPosts", 0, u)
            ELSE
              LET userIds == ObjectKeys(u.ret)
                  targets == IF NeedAllPosts(u.s) THEN userIds ELSE <<>>
              IN  \E ord \in SettleOrders(targets) :
                    \E k \in PostsAnswers(u.s, targets, now, postsOutcomes) :
                      LET f == FetchPosts(NoneSettled(u.s), ord, now, k)
                          allPosts == f.s.allPostsCache
                      IN  IF f.threw # {}
                          THEN Ends("getPopularPosts", 0, TRUE, <<>>, <<>>,
                                    u, f, NoCounts(f.s), f.s)
                          ELSE \E c \in CommentsAnswers(f.s, allPosts,
                                            commentsOutcomes, maxFailures) :
                                 LET n == CountBatches(NoCounts(f.s), allPosts,
                                                       0, now, c)
                                     popularPosts ==
                                         PopularPosts(n.s.allPostsCache, n.counts)
                                 IN  Ends("getPopularPosts", 0, FALSE, <<>>,
                                          popularPosts, u, f, n, n.s)

\* getLatestPosts(limit), the limit drawn from limits
LatestPostsCall(limits, usersOutcomes, postsOutcomes) ==
    \E limit \in limits :
      \E out \in Answers(UsersFresh(DS, now), usersOutcomes) :
        LET u == GetUsersStep(DS, now, out)
        IN  IF u.threw THEN DirectoryThrew("getLatestPosts", limit, u)
            ELSE
              LET userIds == ObjectKeys(u.ret)
                  targets == IF NeedAllPosts(u.s) THEN userIds ELSE <<>>
              IN  \E ord \in SettleOrders(targets) :
                    \E k \in PostsAnswers(u.s, targets, now, postsOutcomes) :
                      LET f == FetchPosts(NoneSettled(u.s), ord, now, k)
                      IN  IF f.threw # {}
                          THEN Ends("getLatestPosts", limit, TRUE, <<>>, <<>>,
                                    u, f, NoCounts(f.s), f.s)
                          ELSE Ends("getLatestPosts", limit, FALSE, <<>>,
                                    LatestPosts(f.s.allPostsCache, limit),
                                    u, f, NoCounts(f.s), f.s)

GetTopUsers ==
    /\ TopUsersCall(UsersOutcomes, PostsOutcomes)
    /\ UNCHANGED res

GetPopularPosts ==
    /\ PopularPostsCall(UsersOutcomes, PostsOutcomes, CommentsOutcomes,
                        Cardinality(PostIds))
    /\ UNCHANGED res

GetLatestPosts ==
    /\ LatestPostsCall(LatestLimits, UsersOutcomes, PostsOutcomes)
    /\ UNCHANGED res

\* The service as its callers use it: the three aggregations, time passing
\* between the calls.
Next ==
    \/ Tick
    \/ GetTopUsers
    \/ GetPopularPosts
    \/ GetLatestPosts

Spec == Init /\ [][Next]_vars

\* The lookups called one at a time.
LookupNext ==
    \/ Tick
    \/ GetUsers
    \/ GetUserPosts
    \/ GetPostComments

LookupSpec == Init /\ [][LookupNext]_vars

---------------------------------------------------------------------------
(* The service while the remote source is reachable and its directory holds  *)
(* every user: no request fails.                                              *)

UsersUp == {[ok |-> TRUE, ids |-> UserIds]}

PostsUp == 0..MaxPosts

CommentsUp == 0..MaxComments

GetTopUsersUp ==
    /\ TopUsersCall(UsersUp, PostsUp)
    /\ UNCHANGED res

GetPopularPostsUp ==
    /\ PopularPostsCall(UsersUp, PostsUp, CommentsUp, 0)
    /\ UNCHANGED res

GetLatestPostsUp ==
    /\ LatestPostsCall(LatestLimits, UsersUp, PostsUp)
    /\ UNCHANGED res

LiveNext ==
    \/ Tick
    \/ GetTopUsersUp
    \/ GetPopularPostsUp
    \/ GetLatestPostsUp

\* a call of the aggregation op has just settled
Called(op) == last.op = op

\* Time keeps passing while it can, and callers keep calling each of the three
\* aggregations.  A call is always possible, so that for each aggregation A the
\* last three conjuncts say what WF_vars(A) says.
LiveSpec ==
    /\ Init
    /\ [][LiveNext]_vars
    /\ WF_vars(Tick)
    /\ []<>Called("getTopUsers")
    /\ []<>Called("getPopularPosts")
    /\ []<>Called("getLatestPosts")

---------------------------------------------------------------------------
(* The service over a remote source whose one user has more posts than a     *)
(* batch of comment lookups holds, so that getPopularPosts runs two batches.  *)

UsersOne == {[ok |-> FALSE, ids |-> {}], [ok |-> TRUE, ids |-> {<<2>>}]}

PostsMany == {-1, batchSize + 1}

CommentsSome == {-1, MaxComments}

GetPopularPostsBatched ==
    /\ PopularPostsCall(UsersOne, PostsMany, CommentsSome, MaxFailures)
    /\ UNCHANGED res

BatchNext ==
    \/ Tick
    \/ GetPopularPostsBatched

BatchSpec == Init /\ [][BatchNext]_vars

---------------------------------------------------------------------------
(* The controller (analyticsController.ts): the two routes of the service.   *)

\* the response after the try/catch of a handler: 200 with the result, 500
\* when the engine threw
Respond(route, query, threw) ==
    [route |-> route, query |-> query, status |-> IF threw THEN 500 ELSE 200]

\* the values of req.query.type: "" stands for an absent or empty parameter
PostTypes == {"", "popular", "latest", "bogus"}

\* TypeOrLatest serving every type but "popular" as "latest"
TypeOrLatestLenient(type) == IF type = "popular" THEN "popular" ELSE "latest"

\* req.query.type as string || 'latest'
TypeOrLatest(type) == IF type = "" THEN "latest" ELSE type

\* GET /users: getTopUsers(limit), the limit parsed from the query string
GetTopUsersRoute ==
    /\ TopUsersCall(UsersOutcomes, PostsOutcomes)
    /\ res' = Respond("/users", "", last'.threw)

\* GET /posts?type=..: getPopularPosts(), getLatestPosts() or a 400
GetPostsRoute ==
    \E query \in PostTypes :
        LET type == TypeOrLatest(query)
        IN  IF type = "popular"
            THEN /\ PopularPostsCall(UsersOutcomes, PostsOutcomes,
                                     CommentsOutcomes, Cardinality(PostIds))
                 /\ res' = Respond("/posts", query, last'.threw)
            ELSE IF type = "latest"
            THEN /\ LatestPostsCall({DefaultLimit}, UsersOutcomes, PostsOutcomes)
                 /\ res' = Respond("/posts", query, last'.threw)
            ELSE /\ res' = [route |-> "/posts", query |-> query, status |-> 400]
                 /\ last' = Idle
                 /\ UNCHANGED <<now, caches, fetched, calls>>

ApiNext ==
    \/ Tick
    \/ GetTopUsersRoute
    \/ GetPostsRoute

ApiSpec == Init /\ [][ApiNext]_vars

---------------------------------------------------------------------------
(* Overlapping calls.  A call runs from one await to the next without        *)
(* interruption; while it waits for a response of the remote source, other   *)
(* calls run.  One step is the start of a call or the arrival of one         *)
(* response, with everything the call does until it next has to wait.        *)

AggregationOps == {"getTopUsers", "getPopularPosts", "getLatestPosts"}

\* the call p, and the object s it leaves behind
Going(p, s) == [p |-> p, s |-> s]

\* The promise of the call settles; its locals are gone, the requests it has
\* left unanswered are not.
Returned(p, threw, top, posts) ==
    [NoCall EXCEPT !.op = p.op, !.limit = p.limit, !.count = p.count,
                   !.pc = "done", !.currentTime = p.currentTime,
                   !.pendingPosts = p.pendingPosts,
                   !.asked = p.asked, !.failed = p.failed,
                   !.threw = threw, !.top = top, !.posts = posts]

\* getPopularPosts at the head of its loop: the callbacks of the batch at i run
\* up to their first await, and the call waits for the requests they issued;
\* a batch that issues none is followed by the next at once.  After the last
\* batch the result is computed.
RECURSIVE StartBatch(_, _, _)
StartBatch(p, s, currentTime) ==
    IF p.i < Len(p.allPosts)
    THEN LET batch == Batch(p.allPosts, p.i)
             ids == {batch[j].id : j \in 1..Len(batch)}
             cached == {id \in ids : id \in DOMAIN s.postCommentCountCache}
             fresh == {id \in ids \ cached : CommentsFresh(s, id, currentTime)}
             asking == ids \ (cached \cup fresh)
             counts == [id \in (DOMAIN p.counts) \cup cached \cup fresh |->
                          IF id \in cached
                          THEN OrZero(s.postCommentCountCache[id])
                          ELSE IF id \in fresh THEN Len(s.commentsCache[id])
                          ELSE p.counts[id]]
             q == [p EXCEPT !.pc = "comments", !.currentTime = currentTime,
                            !.counts = counts, !.pendingComments = asking,
                            !.asked.comments = @ \cup asking]
         IN  IF asking = {}
             THEN StartBatch([q EXCEPT !.i = @ + batchSize], s, currentTime)
             ELSE Going(q, s)
    ELSE Going(Returned(p, FALSE, <<>>, PopularPosts(s.allPostsCache, p.counts)),
               s)

\* The call after its Promise.all over getUserPosts has resolved.
AfterPosts(p, s, currentTime) ==
    IF p.op = "getTopUsers"
    THEN LET f == [s |-> s, threw |-> p.threwPosts, len |-> p.lens]
             postCounts == TopPostCounts(p.hadCounts, p.targets, f)
             topUsers == RankTopUsers(p.users, postCounts, p.limit)
         IN  Going(Returned(p, FALSE, topUsers, <<>>), s)
    ELSE IF p.op = "getLatestPosts"
    THEN Going(Returned(p, FALSE, <<>>, LatestPosts(s.allPostsCache, p.limit)), s)
    ELSE StartBatch([p EXCEPT !.allPosts = s.allPostsCache, !.i = 0,
                              !.counts = <<>>],
                    s, currentTime)

\* The call after its await of getUsers, which resolved with p.users: the
\* lookups of posts run up to their first await.
StartPosts(p, s, currentTime) ==
    LET userIds == ObjectKeys(p.users)
        targets == IF p.op = "getTopUsers" THEN TopTargets(s, userIds)
                   ELSE IF NeedAllPosts(s) THEN userIds
                   ELSE <<>>
        fresh == {id \in Elements(targets) :
                    PostsFresh(s, ParseInt(id), currentTime)}
        asking == Elements(targets) \ fresh
        q == [p EXCEPT !.pc = "posts", !.currentTime = currentTime,
                       !.hadCounts = HasPostCounts(s), !.targets = targets,
                       !.pendingPosts = asking, !.threwPosts = {},
                       !.lens = [id \in fresh |-> Len(s.postsCache[ParseInt(id)])],
                       !.asked.posts = @ \cup asking]
    IN  IF asking = {} THEN AfterPosts(q, s, currentTime) ELSE Going(q, s)

\* Begin starting the lookups of posts on the cached directory while the
\* directory is being refetched
BeginPrefetching(p, s, currentTime) ==
    IF UsersFresh(s, currentTime)
    THEN StartPosts([p EXCEPT !.users = s.usersCache], s, currentTime)
    ELSE LET g == StartPosts([p EXCEPT !.users = s.usersCache,
                                       !.op = "getTopUsers"],
                             s, currentTime)
         IN  Going([p EXCEPT !.pc = "users", !.currentTime = currentTime,
                             !.asked.users = TRUE,
                             !.pendingPosts = g.p.pendingPosts,
                             !.asked.posts = g.p.pendingPosts],
                   s)

\* The first statement of an aggregation: const users = await this.getUsers()
Begin(p, s, currentTime) ==
    IF UsersFresh(s, currentTime)
    THEN StartPosts([p EXCEPT !.users = s.usersCache], s, currentTime)
    ELSE Going([p EXCEPT !.pc = "users", !.currentTime = currentTime,
                         !.asked.users = TRUE],
               s)

\* the call of caller c becomes g.p and the object g.s
Proceed(c, g) ==
    /\ Install(g.s)
    /\ calls' = [calls EXCEPT ![c] = g.p]
    /\ UNCHANGED <<now, res>>

\* Caller c, who has no call in progress and has made fewer than maxCalls,
\* calls one of the aggregations ops (with the default limit).
StartCall(c, ops, maxCalls) ==
    /\ calls[c].pc \in {"idle", "done"}
    /\ calls[c].pendingPosts = {}
    /\ calls[c].count < maxCalls
    /\ \E op \in ops :
          LET limit == IF op = "getPopularPosts" THEN 0 ELSE DefaultLimit
              p == [NoCall EXCEPT !.op = op, !.limit = limit,
                                  !.count = calls[c].count + 1]
          IN  /\ Proceed(c, Begin(p, DS, now))
              /\ last' = Idle
              /\ UNCHANGED fetched

\* The request for the directory that the call of c is waiting for is answered.
UsersArrive(c, usersOutcomes) ==
    /\ calls[c].pc = "users"
    /\ \E out \in usersOutcomes :
          LET p == calls[c]
              r == UsersArrival(DS, p.currentTime, out)
              asked == [NoRequests EXCEPT !.users = TRUE]
              failed == [NoRequests EXCEPT !.users = ~r.stored]
              q == [p EXCEPT !.failed.users = @ \/ ~r.stored]
          IN  /\ Proceed(c, IF r.threw THEN Going(Returned(q, TRUE, <<>>, <<>>), r.s)
                            ELSE StartPosts([q EXCEPT !.users = r.ret], r.s, now))
              /\ last' = Observed("getUsers", NoArg, r.threw, r.ret, <<>>, <<>>,
                                  <<>>, <<>>, asked, failed)
              /\ fetched' = Remember(asked, failed)

\* A request for the posts of a user issued by the call of c is answered.  In
\* getPopularPosts and getLatestPosts the first lookup that throws rejects the
\* Promise.all and with it the call; the requests still unanswered are answered
\* later all the same.
PostsArrive(c, postsOutcomes) ==
    \E userId \in calls[c].pendingPosts :
      \E k \in postsOutcomes :
          LET p == calls[c]
              r == PostsArrival(DS, userId, p.currentTime, k)
              asked == [NoRequests EXCEPT !.posts = {userId}]
              failed == [NoRequests EXCEPT
                           !.posts = IF r.stored THEN {} ELSE {userId}]
              q == [p EXCEPT
                      !.pendingPosts = @ \ {userId},
                      !.failed.posts = @ \cup failed.posts,
                      !.threwPosts = IF r.threw THEN @ \cup {userId} ELSE @,
                      !.lens = IF r.threw THEN @
                               ELSE MapSet(@, userId, Len(r.ret))]
          IN  /\ Proceed(c, IF p.pc # "posts" THEN Going(q, r.s)
                            ELSE IF r.threw /\ p.op # "getTopUsers"
                            THEN Going(Returned(q, TRUE, <<>>, <<>>), r.s)
                            ELSE IF q.pendingPosts = {}
                            THEN AfterPosts(q, r.s, now)
                            ELSE Going(q, r.s))
              /\ last' = Observed("getUserPosts", [NoArg EXCEPT !.user = userId],
                                  r.threw, <<>>, <<>>, r.ret, <<>>, <<>>,
                                  asked, failed)
              /\ fetched' = Remember(asked, failed)

\* A request for the comments of a post issued by the call of c (a
\* getPopularPosts in its batch loop) is answered; at most maxFailures requests
\* of a call fail.
CommentsArrive(c, commentsOutcomes, maxFailures) ==
    \E postId \in calls[c].pendingComments :
      \E n \in commentsOutcomes :
          LET p == calls[c]
              r == CommentsArrival(DS, postId, p.currentTime, n)
              asked == [NoRequests EXCEPT !.comments = {postId}]
              failed == [NoRequests EXCEPT
                           !.comments = IF r.stored THEN {} ELSE {postId}]
              met == [p EXCEPT !.pendingComments = @ \ {postId},
                               !.failed.comments = @ \cup failed.comments]
              q == IF r.threw THEN CountAfterError(met, postId)
                   ELSE [met EXCEPT !.counts = MapSet(@, postId, Len(r.ret))]
          IN  /\ Cardinality(q.failed.comments) <= maxFailures
              /\ Proceed(c, IF q.pendingComments = {}
                            THEN StartBatch([q EXCEPT !.i = @ + batchSize],
                                            r.s, now)
                            ELSE Going(q, r.s))
              /\ last' = Observed("getPostComments",
                                  [NoArg EXCEPT !.post = postId],
                                  r.threw, <<>>, <<>>, <<>>, r.ret, <<>>,
                                  asked, failed)
              /\ fetched' = Remember(asked, failed)

\* The calls of MaxCallers callers overlap; the directory of the remote source
\* holds one user.
Start == \E c \in Callers : StartCall(c, AggregationOps, MaxCalls)

DirectoryArrives == \E c \in Callers : UsersArrive(c, UsersOne)

PostsArrives == \E c \in Callers : PostsArrive(c, PostsOutcomes)

CommentsArrives ==
    \E c \in Callers : CommentsArrive(c, CommentsOutcomes, Cardinality(PostIds))

StepNext ==
    \/ Tick
    \/ Start
    \/ DirectoryArrives
    \/ PostsArrives
    \/ CommentsArrives

StepSpec == Init /\ [][StepNext]_vars

\* One call of getPopularPosts, step by step, over the remote source whose one
\* user has more posts than a batch holds; the clock stands still meanwhile.
StartBatched ==
    \E c \in Callers : c = 1 /\ StartCall(c, {"getPopularPosts"}, MaxCalls)

DirectoryArrivesBatched == \E c \in Callers : UsersArrive(c, UsersOne)

PostsArrivesBatched == \E c \in Callers : PostsArrive(c, PostsMany)

CommentsArrivesBatched ==
    \E c \in Callers : CommentsArrive(c, CommentsSome, MaxFailures)

StepBatchNext ==
    \/ StartBatched
    \/ DirectoryArrivesBatched
    \/ PostsArrivesBatched
    \/ CommentsArrivesBatched

StepBatchSpec == Init /\ [][StepBatchNext]_vars

---------------------------------------------------------------------------
(* Properties of the lookups, under LookupSpec.  In a step that is a call of  *)
(* a lookup, the unprimed variables are the object before the call and last'  *)
(* is what the call did.                                                      *)

\* the step is a call of getUsers / getUserPosts(userId) / getPostComments(postId)
IsGetUsers == last'.op = "getUsers"

IsGetUserPosts(userId) == last'.op = "getUserPosts" /\ last'.user = userId

IsGetPostComments(postId) == last'.op = "getPostComments" /\ last'.post = postId

\* the call asked nothing of the remote source
AskedNothing == last'.asked = NoRequests

\* C1, for the directory: a lookup of the directory less than cacheTTL after
\* the time recorded for its last successful fetch returns the cached directory
\* and asks nothing of the remote source.
FreshUsersServed ==
    (IsGetUsers /\ fetched.users /\ now - lastUsersFetch < cacheTTL)
        => (AskedNothing /\ ~last'.threw /\ last'.dir = usersCache)

\* C1, for the posts of a user
FreshPostsServed ==
    \A userId \in UserIds :
        (/\ IsGetUserPosts(userId)
         /\ ParseInt(userId) \in fetched.posts
         /\ now - lastPostsFetch[ParseInt(userId)] < cacheTTL)
            => (/\ AskedNothing
                /\ ~last'.threw
                /\ last'.posts = postsCache[ParseInt(userId)])

\* C1, for the comments of a post
FreshCommentsServed ==
    \A postId \in PostIds :
        (/\ IsGetPostComments(postId)
         /\ postId \in fetched.comments
         /\ now - lastCommentsFetch[postId] < cacheTTL)
            => (/\ AskedNothing
                /\ ~last'.threw
                /\ last'.comments = commentsCache[postId])

\* C1 (Freshness): for every cache key (the directory, each user's posts, each
\* post's comments), a lookup made less than cacheTTL after the time recorded
\* for the key's last successful fetch returns the cached value and issues no
\* remote request, whatever the cached value is (an empty directory and an
\* empty list included).
C1_Freshness ==
    [][FreshUsersServed /\ FreshPostsServed /\ FreshCommentsServed]_vars

\* C2, for the directory: when a fetch of the directory succeeded earlier and
\* the refetch fails, the lookup returns the stored directory.
StaleUsersServed ==
    (IsGetUsers /\ fetched.users /\ last'.failed.users)
        => (~last'.threw /\ last'.dir = usersCache)

\* C2, for the posts of a user
StalePostsServed ==
    \A userId \in UserIds :
        (/\ IsGetUserPosts(userId)
         /\ ParseInt(userId) \in fetched.posts
         /\ userId \in last'.failed.posts)
            => (~last'.threw /\ last'.posts = postsCache[ParseInt(userId)])

\* C2, for the comments of a post
StaleCommentsServed ==
    \A postId \in PostIds :
        (/\ IsGetPostComments(postId)
         /\ postId \in fetched.comments
         /\ postId \in last'.failed.comments)
            => (~last'.threw /\ last'.comments = commentsCache[postId])

\* C2 (Stale fallback): for every cache key, when an earlier fetch of the key
\* succeeded and a later refetch fails, the lookup returns the previously
\* stored value and raises no failure, however old and whether or not empty
\* that value is.
C2_StaleFallback ==
    [][StaleUsersServed /\ StalePostsServed /\ StaleCommentsServed]_vars

\* C3, for the directory
NoPriorUsersThrows ==
    (IsGetUsers /\ ~fetched.users /\ last'.failed.users)
        => (/\ last'.threw
            /\ UNCHANGED caches
            /\ usersCache' = <<>> /\ lastUsersFetch' = 0)

\* C3, for the posts of a user
NoPriorPostsThrows ==
    \A userId \in UserIds :
        (/\ IsGetUserPosts(userId)
         /\ ParseInt(userId) \notin fetched.posts
         /\ userId \in last'.failed.posts)
            => (/\ last'.threw
                /\ UNCHANGED caches
                /\ ParseInt(userId) \notin DOMAIN postsCache'
                /\ ParseInt(userId) \notin DOMAIN lastPostsFetch'
                /\ userId \notin DOMAIN userPostCountCache'
                /\ \A i \in 1..Len(allPostsCache') :
                       allPostsCache'[i].userid # ParseInt(userId))

\* C3, for the comments of a post
NoPriorCommentsThrows ==
    \A postId \in PostIds :
        (/\ IsGetPostComments(postId)
         /\ postId \notin fetched.comments
         /\ postId \in last'.failed.comments)
            => (/\ last'.threw
                /\ UNCHANGED caches
                /\ postId \notin DOMAIN commentsCache'
                /\ postId \notin DOMAIN lastCommentsFetch'
                /\ postId \notin DOMAIN postCommentCountCache')

\* C3 (No prior value): for every cache key, when no fetch of the key has ever
\* succeeded and the remote fetch fails, the lookup raises a failure to its
\* caller and stores nothing for the key.
C3_NoPriorValue ==
    [][NoPriorUsersThrows /\ NoPriorPostsThrows /\ NoPriorCommentsThrows]_vars

\* C3 happens: a lookup of a user's posts has just thrown on a remote failure,
\* no fetch of that user's posts having ever succeeded, while the directory and
\* another key are cached.
C3_Witness ==
    /\ last.op = "getUserPosts"
    /\ last.threw
    /\ last.user \in last.failed.posts
    /\ ParseInt(last.user) \notin fetched.posts
    /\ fetched.users
    /\ fetched.posts # {}
    /\ fetched.comments # {}

---------------------------------------------------------------------------
(* Properties of the aggregations *)

\* the posts of a user of the directory were fetched cacheTTL ago or earlier
PostsExpired(userId) ==
    /\ userId \in DOMAIN usersCache
    /\ ParseInt(userId) \in DOMAIN lastPostsFetch
    /\ now - lastPostsFetch[ParseInt(userId)] >= cacheTTL

\* an aggregation has just issued a remote fetch of the user's posts
PostsRefetched(userId) ==
    last.op \in AggregationOps /\ userId \in last.asked.posts

\* the comments of a post of the merged view were fetched cacheTTL ago or earlier
CommentsExpired(postId) ==
    /\ \E i \in 1..Len(allPostsCache) : allPostsCache[i].id = postId
    /\ postId \in DOMAIN lastCommentsFetch
    /\ now - lastCommentsFetch[postId] >= cacheTTL

\* an aggregation has just issued a remote fetch of the post's comments
CommentsRefetched(postId) ==
    last.op \in AggregationOps /\ postId \in last.asked.comments

\* C4 (Eventual refresh): once the clock has passed the fetch time of a user's
\* posts by cacheTTL, the remote source being reachable, some later aggregation
\* call issues a new remote fetch of that user's posts; likewise for the
\* comments of a post.
C4_EventualRefresh ==
    /\ \A userId \in UserIds :
           [](PostsExpired(userId) => <>PostsRefetched(userId))
    /\ \A postId \in PostIds :
           [](CommentsExpired(postId) => <>CommentsRefetched(postId))

---------------------------------------------------------------------------
(* Results of the aggregations.  last is the call that has just settled and   *)
(* the other variables are the object it left.                                *)

Min(a, b) == IF a < b THEN a ELSE b

\* the number of posts cached for a user, 0 when none is
CachedPostCount(userId) ==
    IF userId \in DOMAIN userPostCountCache THEN userPostCountCache[userId] ELSE 0

\* User a is ranked in front of user b: more posts, or as many and earlier in
\* the iteration order of the directory (numeric keys iterate in ascending
\* order).
RankedInFront(a, b) ==
    \/ CachedPostCount(a) > CachedPostCount(b)
    \/ (CachedPostCount(a) = CachedPostCount(b) /\ ParseInt(a) < ParseInt(b))

\* C5 (Top-N): getTopUsers(limit) with a positive limit returns
\* min(limit, number of users) users of the directory, each with its name and
\* post count, in non-increasing order of post count, users with equal counts
\* in directory order, and no user left out is ranked in front of a returned
\* one.
C5_TopN ==
    (last.op = "getTopUsers" /\ ~last.threw /\ last.limit > 0) =>
        LET top == last.top
            ids == DOMAIN last.dir
            returned == {top[i].id : i \in 1..Len(top)}
        IN  /\ Len(top) = Min(last.limit, Cardinality(ids))
            /\ \A i \in 1..Len(top) :
                   /\ top[i].id \in ids
                   /\ top[i].name = last.dir[top[i].id]
                   /\ top[i].postCount = CachedPostCount(top[i].id)
            /\ \A i, j \in 1..Len(top) :
                   i < j => RankedInFront(top[i].id, top[j].id)
            /\ \A id \in ids \ returned :
                   \A i \in 1..Len(top) : RankedInFront(top[i].id, id)

\* C5 happens: two users with one post each, limit 1: the first of the
\* directory is returned.
C5_Witness ==
    /\ last.op = "getTopUsers" /\ ~last.threw /\ last.limit = 1
    /\ DOMAIN last.dir = {<<2>>, <<1, 0>>}
    /\ CachedPostCount(<<2>>) = 1 /\ CachedPostCount(<<1, 0>>) = 1
    /\ Len(last.top) = 1
    /\ last.top[1].id = <<2>> /\ last.top[1].postCount = 1

\* the comment count of a post: that of the cache, 0 when its fetch failed and
\* nothing is cached
CachedCommentCount(post) ==
    IF post.id \in DOMAIN postCommentCountCache
    THEN postCommentCountCache[post.id] ELSE 0

\* C6 (Popular set): getPopularPosts returns exactly the posts of the merged
\* view whose comment count is the maximum over the merged view, a failed
\* comment fetch counting as 0: every such post, all posts when all counts are
\* equal, none when the merged view is empty.
C6_PopularSet ==
    (last.op = "getPopularPosts" /\ ~last.threw) =>
        LET most(post) ==
                \A i \in 1..Len(allPostsCache) :
                    CachedCommentCount(allPostsCache[i]) <= CachedCommentCount(post)
        IN  /\ last.posts = SelectSeq(allPostsCache, most)
            /\ (allPostsCache = <<>> => last.posts = <<>>)
            /\ ((\A i, j \in 1..Len(allPostsCache) :
                    CachedCommentCount(allPostsCache[i])
                        = CachedCommentCount(allPostsCache[j]))
                   => last.posts = allPostsCache)

\* C6 happens: of two posts, one has a comment and one, whose comment fetch
\* failed, counts 0; the first alone is returned.
C6_Witness ==
    /\ last.op = "getPopularPosts" /\ ~last.threw
    /\ Len(allPostsCache) = 2
    /\ last.failed.comments # {}
    /\ Len(last.posts) = 1
    /\ CachedCommentCount(last.posts[1]) = 1

\* C7 (Latest ordering): getLatestPosts(limit) returns min(limit, size of the
\* merged view) posts of the merged view in non-increasing order of fetch
\* timestamp, and no post left out has a greater timestamp than a returned one.
C7_LatestOrdering ==
    (last.op = "getLatestPosts" /\ ~last.threw) =>
        LET ret == last.posts
            all == allPostsCache
            returned == {ret[i] : i \in 1..Len(ret)}
        IN  /\ Len(ret) = Min(last.limit, Len(all))
            /\ \A i, j \in 1..Len(ret) :
                   i < j => (ret[i] # ret[j] /\ ret[i].timestamp >= ret[j].timestamp)
            /\ \A i \in 1..Len(ret) : \E k \in 1..Len(all) : all[k] = ret[i]
            /\ \A k \in 1..Len(all) :
                   all[k] \notin returned =>
                       \A i \in 1..Len(ret) : all[k].timestamp <= ret[i].timestamp

\* C7 happens: the merged view holds an older post in front of a newer one and
\* the limit is 1: the newer one is returned.
C7_Witness ==
    /\ last.op = "getLatestPosts" /\ ~last.threw /\ last.limit = 1
    /\ Len(allPostsCache) = 2
    /\ allPostsCache[1].timestamp < allPostsCache[2].timestamp
    /\ last.posts = <<allPostsCache[2]>>

\* C8 (All owners covered): when getPopularPosts or getLatestPosts computes its
\* result, the posts of every user of the directory have been fetched: they
\* are cached, or the call asked the remote source for them.
C8_AllOwnersCovered ==
    (last.op \in {"getPopularPosts", "getLatestPosts"} /\ ~last.threw) =>
        \A userId \in DOMAIN last.dir :
            \/ ParseInt(userId) \in DOMAIN postsCache
            \/ userId \in last.asked.posts

\* the users whose posts the call asked for in vain and has no cached posts of
Unserved == {userId \in last.failed.posts : ParseInt(userId) \notin DOMAIN postsCache}

\* C9 (Partial secondary failures never abort): when the directory is
\* available and the fetch of posts fails for some users without cached posts,
\* each aggregation still completes and raises no failure.
C9_PartialFailuresNeverAbort ==
    (last.op \in AggregationOps /\ Unserved # {}) => ~last.threw

\* C10 (Tertiary failure degrades to zero): in getPopularPosts, when the
\* comment fetch of a post fails, nothing being cached for it, the count of
\* that post is 0, every other post of the merged view, in the same batch and
\* in the later ones, has its count, and the call returns a result.
C10_TertiaryFailureToZero ==
    (last.op = "getPopularPosts" /\ last.failed.comments # {}) =>
        /\ ~last.threw
        /\ \A i \in 1..Len(allPostsCache) :
               LET id == allPostsCache[i].id
               IN  /\ id \in DOMAIN last.counts
                   /\ id \in last.failed.comments => last.counts[id] = 0
                   /\ id \notin last.failed.comments =>
                          /\ id \in DOMAIN postCommentCountCache
                          /\ last.counts[id] = postCommentCountCache[id]

\* C10 happens: a comment fetch of the first batch fails, and the post that
\* makes up the second batch is fetched and counted.
C10_Witness ==
    /\ last.op = "getPopularPosts" /\ ~last.threw
    /\ Len(allPostsCache) > batchSize
    /\ \E i \in 1..batchSize : allPostsCache[i].id \in last.failed.comments
    /\ LET id == allPostsCache[batchSize + 1].id
       IN  /\ id \in last.asked.comments \ last.failed.comments
           /\ last.counts[id] = MaxComments

---------------------------------------------------------------------------
(* Failures of the directory *)

\* C11 (Directory unavailable): when no fetch of the directory has ever
\* succeeded and its remote fetch fails, a call of getTopUsers, getPopularPosts
\* or getLatestPosts raises a failure to its caller, issues no fetch of posts
\* or comments, and leaves every cache and fetch timestamp unchanged.
C11_DirectoryUnavailable ==
    [][(last'.op \in AggregationOps /\ ~fetched.users /\ last'.failed.users)
          => (/\ last'.threw
              /\ last'.asked.posts = {}
              /\ last'.asked.comments = {}
              /\ UNCHANGED caches)]_vars

\* C11 happens: time has passed, no fetch of the directory has succeeded yet,
\* and getLatestPosts has just failed on the fetch of the directory.
C11_Witness ==
    /\ last.op = "getLatestPosts"
    /\ last.threw
    /\ last.failed.users
    /\ ~fetched.users
    /\ now > TickStep

---------------------------------------------------------------------------
(* Validation of the requests, under ApiSpec.  res is the response that has   *)
(* just been sent and last the engine call made for it.                       *)

\* C12 (Limit validation): a top-users request whose limit is zero or
\* negative is answered with a validation error and never with a result list
\* (here: even on the requests on which the engine does not fail).
C12_LimitValidation ==
    (res.route = "/users" /\ last.limit <= 0 /\ ~last.threw) =>
        res.status = 400

\* C13 (Kind validation): a posts request whose kind is given and is neither
\* "latest" nor "popular" is answered with a validation error (400, not 500),
\* issues no remote request and changes no cache.
C13_KindValidation ==
    [][(res'.route = "/posts" /\ res'.query \notin {"", "popular", "latest"})
          => (/\ res'.status = 400
              /\ last'.asked = NoRequests
              /\ last'.op = "none"
              /\ UNCHANGED <<caches, fetched>>)]_vars

\* C13 happens: the caches being filled, a request of an unknown kind has just
\* been refused.
C13_Witness ==
    /\ res.route = "/posts" /\ res.query = "bogus" /\ res.status = 400
    /\ fetched.users /\ fetched.posts # {} /\ fetched.comments # {}

---------------------------------------------------------------------------
(* Frame properties of the lookups, under LookupSpec *)

\* what the merge of a user's posts writes
postsState == <<allPostsCache, postsCache, userPostCountCache, lastPostsFetch>>

\* C15 as claimed (Merge idempotence): of two calls of getUserPosts for the
\* same user made one after the other at the same time, the first of which
\* asked the remote source, the second asks nothing (the two issue exactly one
\* remote fetch) and leaves allPostsCache, postsCache, userPostCountCache and
\* the user's fetch time as the first left them.
C15_MergeIdempotence ==
    [][\A userId \in UserIds :
          (/\ last.op = "getUserPosts" /\ last.user = userId
           /\ last.asked.posts = {userId}
           /\ IsGetUserPosts(userId))
              => (AskedNothing /\ UNCHANGED postsState)]_vars

\* C15 as amended: a call of getUserPosts for a user whose posts an earlier
\* call fetched successfully less than cacheTTL ago issues no remote fetch and
\* leaves allPostsCache, postsCache, userPostCountCache and the user's fetch
\* time unchanged (no duplicates, no growth), and returns the cached posts.
C15_IdempotentAfterSuccess ==
    [][\A userId \in UserIds :
          (/\ IsGetUserPosts(userId)
           /\ ParseInt(userId) \in fetched.posts
           /\ now - lastPostsFetch[ParseInt(userId)] < cacheTTL)
              => (/\ AskedNothing
                  /\ UNCHANGED postsState
                  /\ last'.posts = postsCache[ParseInt(userId)])]_vars

\* C15 happens: the posts of a user were fetched, time has passed, less than
\* cacheTTL, and a second call has just been served without a request.
C15_Witness ==
    /\ last.op = "getUserPosts" /\ ~last.threw
    /\ last.asked = NoRequests
    /\ ParseInt(last.user) \in fetched.posts
    /\ now - lastPostsFetch[ParseInt(last.user)] = TickStep
    /\ Len(last.posts) = MaxPosts
    /\ Len(allPostsCache) > MaxPosts

LookupOps == {"getUsers", "getUserPosts", "getPostComments"}

\* C20 (Failed refresh changes nothing): when the remote fetch made by
\* getUsers, getUserPosts or getPostComments fails, every cache and every
\* fetch timestamp is left unchanged, whether the call returns stale data or
\* raises a failure.
C20_FailedRefreshChangesNothing ==
    [][(last'.op \in LookupOps /\ last'.failed # NoRequests)
          => UNCHANGED caches]_vars

\* C20 happens: the refetch of the expired comments of a post has just failed
\* and the stale comments were returned.
C20_Witness ==
    /\ last.op = "getPostComments" /\ ~last.threw
    /\ last.post \in last.failed.comments
    /\ now - lastCommentsFetch[last.post] >= cacheTTL
    /\ last.comments = commentsCache[last.post]
    /\ Len(last.comments) = MaxComments

---------------------------------------------------------------------------
(* Overlapping calls, under StepSpec.  In a step that is the arrival of a    *)
(* response, last' is the lookup that the response completes.                *)

\* the posts of a user in the merged view all, in the order of the view
OwnerPosts(all, userIdNum) ==
    LET owned(p) == p.userid = userIdNum
    IN  SelectSeq(all, owned)

\* C14 (No duplicates in the merged view): allPostsCache never holds two
\* entries with the same post id for the same user, and the entries of a user
\* are exactly the posts of the fetch of that user that completed last: a
\* step that completes a fetch of the user's posts leaves them as the user's
\* entries, and every other step leaves the user's entries as they were; also
\* when two fetches of the same user overlap and complete in either order.
C14_NoDuplicates ==
    [][/\ \A i, j \in 1..Len(allPostsCache') :
             (/\ allPostsCache'[i].id = allPostsCache'[j].id
              /\ allPostsCache'[i].userid = allPostsCache'[j].userid) => i = j
       /\ \A userId \in UserIds :
             IF /\ last'.op = "getUserPosts" /\ last'.user = userId
                /\ userId \in last'.asked.posts \ last'.failed.posts
             THEN OwnerPosts(allPostsCache', ParseInt(userId)) = last'.posts
             ELSE OwnerPosts(allPostsCache', ParseInt(userId))
                      = OwnerPosts(allPostsCache, ParseInt(userId))]_vars

\* C14 happens: two calls of getLatestPosts each fetched the posts of the same
\* user, and the fetch started first (at TickStep) completed last: its post is
\* the one in the merged view.
C14_Witness ==
    \E c, d \in Callers :
        /\ c # d
        /\ calls[c].op = "getLatestPosts" /\ calls[d].op = "getLatestPosts"
        /\ calls[c].asked.posts # {} /\ calls[c].asked.posts = calls[d].asked.posts
        /\ calls[c].pendingPosts = {} /\ calls[d].pendingPosts = {}
        /\ calls[c].failed.posts = {} /\ calls[d].failed.posts = {}
        /\ calls[c].currentTime = TickStep /\ calls[d].currentTime > TickStep
        /\ Len(allPostsCache) = MaxPosts
        /\ allPostsCache[1].timestamp = TickStep

\* C16 (Monotonic fetch time): over every step, the fetch time stored for a
\* user (lastPostsFetch) does not decrease, and neither does the timestamp of
\* the user's posts in the merged view; also when two fetches of the same user
\* overlap and the one started earlier completes later.
C16_MonotonicFetchTime ==
    [][/\ \A n \in DOMAIN lastPostsFetch :
             /\ n \in DOMAIN lastPostsFetch'
             /\ lastPostsFetch'[n] >= lastPostsFetch[n]
       /\ \A i \in 1..Len(allPostsCache) :
             \A j \in 1..Len(allPostsCache') :
                 allPostsCache'[j].userid = allPostsCache[i].userid
                     => allPostsCache'[j].timestamp >= allPostsCache[i].timestamp
      ]_vars

\* C18 (Directory first): a call whose lookup of the directory has not
\* completed has issued no fetch of posts and no fetch of comments.
C18_DirectoryFirst ==
    \A c \in Callers :
        calls[c].pc = "users" =>
            /\ calls[c].asked.posts = {} /\ calls[c].asked.comments = {}
            /\ calls[c].pendingPosts = {} /\ calls[c].pendingComments = {}

\* C18 happens: one call waits for the directory while another, whose fetch of
\* the directory was answered, waits for the posts it then asked for.
C18_Witness ==
    \E c, d \in Callers :
        /\ calls[c].pc = "users" /\ calls[c].asked.users
        /\ calls[d].pc = "posts" /\ calls[d].asked.users
        /\ calls[d].pendingPosts # {}

---------------------------------------------------------------------------
(* The batches of getPopularPosts, under StepBatchSpec *)

\* C17 (Bounded batches): in a call of getPopularPosts, at most batchSize
\* fetches of comments are outstanding, every outstanding one is for a post of
\* the batch at i, and no fetch has been issued for a post of a later batch.
C17_BoundedBatches ==
    \A c \in Callers :
        LET p == calls[c]
            inBatch(id) ==
                \E j \in (p.i + 1)..(p.i + batchSize) :
                    j <= Len(p.allPosts) /\ p.allPosts[j].id = id
        IN  /\ Cardinality(p.pendingComments) <= batchSize
            /\ \A id \in p.pendingComments : inBatch(id)
            /\ \A j \in 1..Len(p.allPosts) :
                   j > p.i + batchSize => p.allPosts[j].id \notin p.asked.comments

\* C17 happens: the first batch was issued whole, one of its fetches failed,
\* all of them are answered, and the fetch of the second batch is outstanding.
C17_Witness ==
    \E c \in Callers :
        /\ calls[c].pc = "comments"
        /\ calls[c].i = batchSize
        /\ Len(calls[c].allPosts) = batchSize + 1
        /\ Cardinality(calls[c].asked.comments) = batchSize + 1
        /\ Cardinality(calls[c].pendingComments) = 1
        /\ calls[c].failed.comments # {}

---------------------------------------------------------------------------
(* Agreement of the caches *)

\* C19 (Cache agreement): for every user with an entry in postsCache,
\* userPostCountCache holds the length of the entry, lastPostsFetch has an
\* entry, and the user's posts in allPostsCache are exactly the posts of the
\* entry, all stamped with the user's lastPostsFetch; and for every post with
\* an entry in commentsCache, postCommentCountCache holds its length.
C19_CacheAgreement ==
    /\ \A userId \in UserIds :
          LET n == ParseInt(userId)
          IN  n \in DOMAIN postsCache =>
                /\ userId \in DOMAIN userPostCountCache
                /\ userPostCountCache[userId] = Len(postsCache[n])
                /\ n \in DOMAIN lastPostsFetch
                /\ OwnerPosts(allPostsCache, n) = postsCache[n]
                /\ \A i \in 1..Len(postsCache[n]) :
                       /\ postsCache[n][i].timestamp = lastPostsFetch[n]
                       /\ postsCache[n][i].userid = n
    /\ DOMAIN postsCache \subseteq {ParseInt(userId) : userId \in UserIds}
    /\ \A postId \in DOMAIN commentsCache :
          /\ postId \in DOMAIN postCommentCountCache
          /\ postCommentCountCache[postId] = Len(commentsCache[postId])

\* C19 happens: both users have posts in the merged view, those of one
\* refetched after the other's, and a post has comments.
C19_Witness ==
    /\ DOMAIN postsCache = {ParseInt(userId) : userId \in UserIds}
    /\ Len(allPostsCache) = 2 * MaxPosts
    /\ allPostsCache[1].timestamp < allPostsCache[Len(allPostsCache)].timestamp
    /\ allPostsCache[1].userid > allPostsCache[Len(allPostsCache)].userid
    /\ \E postId \in DOMAIN commentsCache : Len(commentsCache[postId]) = MaxComments

====
